---- MODULE Spec2Model ----
(***************************************************************************)
(* DogeCash parser and RPC (package dogec): script classification,         *)
(* zerocoin-spend value decoding, transaction and block decoding, chain    *)
(* parameter registration and chain-info augmentation.                     *)
(*                                                                         *)
(* Representation of Go values:                                            *)
(*   []byte        sequence of naturals 0..255                             *)
(*   string (hex)  sequence of one-character strings                       *)
(*   uint32        pair <<hi16, lo16>> (TLC integers are 32-bit signed)    *)
(*   big.Int       little-endian sequence of base-10000 limbs, <<>> = 0    *)
(*   pointer       <<>> for nil, <<v>> for a pointer to v                  *)
(***************************************************************************)
EXTENDS Integers, Sequences, FiniteSets, TLC

VARIABLES
    call,            \* the operation invoked, with its arguments
    ret,             \* what the operation returned
    registeredNets,  \* chaincfg's registry: the set of registered net magics
    gcp,             \* per caller: position and locals inside GetChainParams
    attempts,        \* per net: Register calls made while it was registered
    ci               \* position, locals and RPC log of one GetChainInfo call

vars == <<call, ret, registeredNets, gcp, attempts, ci>>

Nil == <<>>
Some(v) == <<v>>

\* ------------------------------------------------------------------ bounds

MaxShortLen == 8
MaxLongExtra == 2
MaxExtraIns == 1
MaxOuts == 2
MaxBlockTxs == 2
MaxHeight == 90000
MaxCallers == 2

\* --------------------------------------------------------------- constants

OP_ZEROCOINMINT == 193
OP_ZEROCOINSPEND == 194
CBASE_ADDR_INT == 247
CSTAKE_ADDR_INT == 248
nBlocksPerPeriod == 43200
SpendMinLen == 100
MaxUint32 == <<65535, 65535>>

ZCMINT_LABEL == "Zerocoin Mint"
ZCSPEND_LABEL == "Zerocoin Spend"
CBASE_LABEL == "CoinBase TX"
CSTAKE_LABEL == "CoinStake TX"

\* ---------------------------------------------------------------- big.Int
\* limbs are base 10000

\* x*m + a as limbs (x canonical, m >= 1, a >= 0)
RECURSIVE BigMulAdd(_, _, _)
BigMulAdd(x, m, a) ==
    IF x = <<>>
    THEN IF a = 0 THEN <<>> ELSE <<a % 10000>> \o BigMulAdd(<<>>, m, a \div 10000)
    ELSE LET v == x[1] * m + a
         IN  <<v % 10000>> \o BigMulAdd(Tail(x), m, v \div 10000)

\* big.NewInt(n) for a small non-negative n
BigNewInt(n) == BigMulAdd(<<>>, 1, n)

\* x * 1e8
BigMulE8(x) == IF x = <<>> THEN <<>> ELSE <<0, 0>> \o x

\* big.NewInt(int64(u) * 1e8) for a uint32 u = <<hi16, lo16>>
BigFromUint32E8(u) == BigMulE8(BigMulAdd(BigNewInt(u[1]), 65536, u[2]))

\* -------------------------------------------------------------------- hex

HexDigits == <<"0", "1", "2", "3", "4", "5", "6", "7",
               "8", "9", "a", "b", "c", "d", "e", "f">>

\* fmt.Sprintf("%02x", n) for a byte n
Sprintf02x(n) == <<HexDigits[(n \div 16) + 1], HexDigits[(n % 16) + 1]>>

\* hex.EncodeToString
EncodeToString(b) ==
    [k \in 1..(2 * Len(b)) |->
        IF k % 2 = 1 THEN HexDigits[(b[(k + 1) \div 2] \div 16) + 1]
                     ELSE HexDigits[(b[k \div 2] % 16) + 1]]

IsHexChar(c) == \E v \in 1..16 : HexDigits[v] = c
FromHexChar(c) == (CHOOSE v \in 1..16 : HexDigits[v] = c) - 1

\* hex.DecodeString: the bytes decoded before the first bad character, and
\* an error for a bad character or an odd length
ValidPair(s, k) == IsHexChar(s[2 * k - 1]) /\ IsHexChar(s[2 * k])

\* the number of leading character pairs that decode
DecodedPairs(s) ==
    LET n == Len(s) \div 2
    IN  IF \A k \in 1..n : ValidPair(s, k) THEN n
        ELSE (CHOOSE k \in 1..n : ~ValidPair(s, k) /\ \A j \in 1..(k - 1) : ValidPair(s, j)) - 1

DecodeString(s) ==
    [bytes |-> [k \in 1..DecodedPairs(s) |->
                    FromHexChar(s[2 * k - 1]) * 16 + FromHexChar(s[2 * k])],
     err |-> (DecodedPairs(s) * 2 # Len(s))]

\* ----------------------------------------------------------- bytes.Reader

NewReader(b) == [s |-> b, i |-> 0]

\* r.Seek(off, io.SeekCurrent), off >= 0: never fails, may pass the end
Seek(r, off) == [r EXCEPT !.i = r.i + off]

\* Uint8(r): one byte, or an error at the end of the buffer
Uint8(r) ==
    IF r.i + 1 > Len(r.s)
    THEN [err |-> TRUE, v |-> 0, r |-> r]
    ELSE [err |-> FALSE, v |-> r.s[r.i + 1], r |-> [r EXCEPT !.i = r.i + 1]]

\* Uint32(r, binary.LittleEndian): four bytes, or an error when fewer remain
Uint32(r) ==
    IF r.i + 4 > Len(r.s)
    THEN [err |-> TRUE, v |-> <<0, 0>>, r |-> r]
    ELSE [err |-> FALSE,
          v |-> <<r.s[r.i + 3] + 256 * r.s[r.i + 4], r.s[r.i + 1] + 256 * r.s[r.i + 2]>>,
          r |-> [r EXCEPT !.i = r.i + 4]]

\* ------------------------------------------------------ script predicates

isZeroCoinMintScript(signatureScript) ==
    Len(signatureScript) > 1 /\ signatureScript[1] = OP_ZEROCOINMINT

isZeroCoinSpendScript(signatureScript) ==
    Len(signatureScript) >= SpendMinLen /\ signatureScript[1] = OP_ZEROCOINSPEND

isCoinBaseFakeAddr(signatureScript) ==
    Len(signatureScript) = 1 /\ signatureScript[1] = CBASE_ADDR_INT

isCoinStakeFakeAddr(signatureScript) ==
    Len(signatureScript) = 1 /\ signatureScript[1] = CSTAKE_ADDR_INT

\* The baseline (Bitcoin) script-to-address decoder: a pay-to-pubkey-hash
\* script resolves to one address (kept as its hash bytes), a script that is
\* only an opcode prefix of it fails, anything else yields no address.
IsP2PKH(script) ==
    /\ Len(script) = 25
    /\ script[1] = 118 /\ script[2] = 169 /\ script[3] = 20
    /\ script[24] = 136 /\ script[25] = 172

BitcoinOutputScriptToAddressesFunc(script) ==
    IF IsP2PKH(script)
    THEN [addrs |-> <<<<"P2PKH", SubSeq(script, 4, 23)>>>>, searchable |-> TRUE, err |-> FALSE]
    ELSE IF Len(script) > 0 /\ script[1] = 118
    THEN [addrs |-> <<>>, searchable |-> FALSE, err |-> TRUE]
    ELSE [addrs |-> <<>>, searchable |-> FALSE, err |-> FALSE]

\* mutant: the sentinel rules run before the spend and mint rules and match
\* on the first byte alone
outputScriptToAddresses_FirstByteOnly(script) ==
    IF Len(script) >= 1 /\ script[1] = OP_ZEROCOINSPEND
    THEN [addrs |-> <<ZCSPEND_LABEL>>, searchable |-> FALSE, err |-> FALSE, baseline |-> FALSE]
    ELSE LET b == BitcoinOutputScriptToAddressesFunc(script)
         IN  [addrs |-> b.addrs, searchable |-> b.searchable, err |-> FALSE, baseline |-> TRUE]

\* outputScriptToAddresses; baseline records whether the baseline decoder ran
outputScriptToAddresses(script) ==
    IF isZeroCoinSpendScript(script)
    THEN [addrs |-> <<ZCSPEND_LABEL>>, searchable |-> FALSE, err |-> FALSE, baseline |-> FALSE]
    ELSE IF isZeroCoinMintScript(script)
    THEN [addrs |-> <<ZCMINT_LABEL>>, searchable |-> FALSE, err |-> FALSE, baseline |-> FALSE]
    ELSE IF isCoinBaseFakeAddr(script)
    THEN [addrs |-> <<CBASE_LABEL>>, searchable |-> FALSE, err |-> FALSE, baseline |-> FALSE]
    ELSE IF isCoinStakeFakeAddr(script)
    THEN [addrs |-> <<CSTAKE_LABEL>>, searchable |-> FALSE, err |-> FALSE, baseline |-> FALSE]
    ELSE LET b == BitcoinOutputScriptToAddressesFunc(script)
         IN  [addrs |-> b.addrs, searchable |-> b.searchable, err |-> FALSE, baseline |-> TRUE]

\* ------------------------------------------------- zerocoin spend value

\* mutant: the proof payload is not skipped
GetValueSatFromZerocoinSpend_NoSkip(signatureScript) ==
    LET len == Uint8(Seek(NewReader(signatureScript), 1))
    IN  IF len.err THEN [value |-> Nil, err |-> TRUE]
        ELSE LET denom == Uint32(len.r)
             IN  IF denom.err THEN [value |-> Nil, err |-> TRUE]
                 ELSE [value |-> Some(BigFromUint32E8(denom.v)), err |-> FALSE]

GetValueSatFromZerocoinSpend(signatureScript) ==
    LET r0 == Seek(NewReader(signatureScript), 1)
        len == Uint8(r0)
    IN  IF len.err THEN [value |-> Nil, err |-> TRUE]
        ELSE LET r1 == Seek(len.r, len.v)
                 denom == Uint32(r1)
             IN  IF denom.err THEN [value |-> Nil, err |-> TRUE]
                 ELSE [value |-> Some(BigFromUint32E8(denom.v)), err |-> FALSE]

\* ------------------------------------------------------ wire transactions

\* chainhash.Hash: 32 bytes
ZeroHash == [k \in 1..32 |-> 0]

Reverse(b) == [k \in 1..Len(b) |-> b[Len(b) + 1 - k]]

\* Hash.String(): the hex of the byte-reversed hash
HashString(h) == EncodeToString(Reverse(h))

\* MsgTx.TxHash(): the double SHA-256 of the serialization, kept as a term
\* over what is serialized (an ideal, collision-free digest)
TxHash(t) == <<"sha256d", t.Version, t.TxIn, t.TxOut, t.LockTime>>

\* blockchain.IsCoinBaseTx: the baseline coinbase predicate
IsCoinBaseTx(t) ==
    /\ Len(t.TxIn) = 1
    /\ t.TxIn[1].PreviousOutPoint.Index = MaxUint32
    /\ t.TxIn[1].PreviousOutPoint.Hash = ZeroHash

\* the zero value of bchain.Vin
ZeroVin ==
    [Coinbase |-> <<>>, Txid |-> <<>>, Vout |-> <<0, 0>>, Sequence |-> <<0, 0>>,
     ScriptSig |-> [Hex |-> <<>>]]

\* mutant: the coin-spend check is missing from the coinbase branch
CoinbaseBranch_NoSpendCheck(t, i) == IsCoinBaseTx(t)

\* the condition of the input loop's coinbase branch, for input i
CoinbaseBranch(t, i) ==
    ~isZeroCoinSpendScript(t.TxIn[i].SignatureScript) /\ IsCoinBaseTx(t)

\* the input at which the input loop breaks, 0 when it runs to the end
BreakIndex(t) ==
    IF \E i \in 1..Len(t.TxIn) : CoinbaseBranch(t, i)
    THEN CHOOSE i \in 1..Len(t.TxIn) :
            /\ CoinbaseBranch(t, i)
            /\ \A j \in 1..(i - 1) : ~CoinbaseBranch(t, j)
    ELSE 0

TxFromMsgTxVin(t) ==
    [i \in 1..Len(t.TxIn) |->
        LET in == t.TxIn[i]
        IN  IF BreakIndex(t) # 0 /\ i > BreakIndex(t) THEN ZeroVin
            ELSE IF CoinbaseBranch(t, i)
            THEN [ZeroVin EXCEPT !.Coinbase = EncodeToString(in.SignatureScript),
                                 !.Sequence = in.Sequence]
            ELSE [ZeroVin EXCEPT !.Txid = HashString(in.PreviousOutPoint.Hash),
                                 !.Vout = in.PreviousOutPoint.Index,
                                 !.Sequence = in.Sequence,
                                 !.ScriptSig = [Hex |-> EncodeToString(in.SignatureScript)]]]

\* the sentinel the output loop substitutes for an empty script hex
TxFromMsgTxSentinel(t) ==
    IF IsCoinBaseTx(t) /\ ~isZeroCoinSpendScript(t.TxIn[1].SignatureScript)
    THEN Sprintf02x(CBASE_ADDR_INT)
    ELSE Sprintf02x(CSTAKE_ADDR_INT)

\* mutant: the sentinel is substituted only when addresses are resolved
TxFromMsgTxVout_OnlyWhenParsing(t, parseAddresses) ==
    [i \in 1..Len(t.TxOut) |->
        LET out == t.TxOut[i]
            hex == EncodeToString(out.PkScript)
        IN  [ValueSat |-> BigNewInt(out.Value),
             N |-> <<0, i - 1>>,
             JsonValue |-> <<>>,
             ScriptPubKey |->
                [Hex |-> IF hex = <<>> /\ parseAddresses THEN TxFromMsgTxSentinel(t) ELSE hex,
                 Addresses |-> IF parseAddresses THEN outputScriptToAddresses(out.PkScript).addrs
                               ELSE <<>>]]]

TxFromMsgTxVout(t, parseAddresses) ==
    [i \in 1..Len(t.TxOut) |->
        LET out == t.TxOut[i]
            addrs == IF parseAddresses THEN outputScriptToAddresses(out.PkScript).addrs
                     ELSE <<>>
            hex == EncodeToString(out.PkScript)
        IN  [ValueSat |-> BigNewInt(out.Value),
             N |-> <<0, i - 1>>,
             JsonValue |-> <<>>,
             ScriptPubKey |->
                [Hex |-> IF hex = <<>> THEN TxFromMsgTxSentinel(t) ELSE hex,
                 Addresses |-> addrs]]]

TxFromMsgTx(t, parseAddresses) ==
    [Txid |-> <<"hex-reversed", TxHash(t)>>,
     Version |-> t.Version,
     LockTime |-> t.LockTime,
     Vin |-> TxFromMsgTxVin(t),
     Vout |-> TxFromMsgTxVout(t, parseAddresses)]

\* ---------------------------------------------------------- the JSON path

Digits == <<"0", "1", "2", "3", "4", "5", "6", "7", "8", "9">>
IsDigit(c) == \E v \in 1..10 : Digits[v] = c
DigitVal(c) == (CHOOSE v \in 1..10 : Digits[v] = c) - 1

RECURSIVE BigFromDigits(_, _)
BigFromDigits(s, acc) ==
    IF s = <<>> THEN acc ELSE BigFromDigits(Tail(s), BigMulAdd(acc, 10, DigitVal(s[1])))

\* BaseParser.AmountToBigInt with AmountDecimalPoint = 8: drop the decimal
\* point, pad or cut to 8 decimals, parse base 10
AmountToBigInt(n) ==
    LET zeros == [k \in 1..8 |-> "0"]
        dot == IF \E k \in 1..Len(n) : n[k] = "."
               THEN CHOOSE k \in 1..Len(n) : n[k] = "." /\ \A j \in 1..(k - 1) : n[j] # "."
               ELSE 0
        z == 8 - Len(n) + dot
        s == IF dot = 0 THEN n \o zeros
             ELSE IF z > 0
                  THEN SubSeq(n, 1, dot - 1) \o SubSeq(n, dot + 1, Len(n)) \o SubSeq(zeros, 1, z)
                  ELSE SubSeq(n, 1, dot - 1) \o SubSeq(n, dot + 1, Len(n) + z)
    IN  IF s # <<>> /\ \A k \in 1..Len(s) : IsDigit(s[k])
        THEN [v |-> BigFromDigits(s, <<>>), err |-> FALSE]
        ELSE [v |-> <<>>, err |-> TRUE]

isCoinbaseTx(tx) ==
    /\ Len(tx.Vin) = 1
    /\ tx.Vin[1].Coinbase # <<>>
    /\ tx.Vin[1].Sequence = MaxUint32

\* ParseTxFromJson on the unmarshalled message; a malformed message fails in
\* json.Unmarshal
ParseTxFromJson(msg) ==
    IF msg.malformed THEN [tx |-> Nil, err |-> TRUE]
    ELSE IF \E i \in 1..Len(msg.Vout) : AmountToBigInt(msg.Vout[i].JsonValue).err
    THEN [tx |-> Nil, err |-> TRUE]
    ELSE [tx |-> Some([msg EXCEPT !.Vout =
                    [i \in 1..Len(msg.Vout) |->
                        LET vout == msg.Vout[i]
                        IN  [ValueSat |-> AmountToBigInt(vout.JsonValue).v,
                             N |-> vout.N,
                             JsonValue |-> <<>>,
                             ScriptPubKey |->
                                [Hex |-> IF vout.ScriptPubKey.Hex = <<>>
                                         THEN IF isCoinbaseTx(msg)
                                              THEN Sprintf02x(CBASE_ADDR_INT)
                                              ELSE Sprintf02x(CSTAKE_ADDR_INT)
                                         ELSE vout.ScriptPubKey.Hex,
                                 Addresses |-> IF vout.ScriptPubKey.Addresses = Nil
                                               THEN <<>>
                                               ELSE vout.ScriptPubKey.Addresses[1]]]]]),
          err |-> FALSE]

\* ------------------------------------------------- unknown-input helpers

GetAddrDescForUnknownInput(tx, input) ==
    IF Len(tx.Vin) > input /\ tx.Vin[input + 1].ScriptSig.Hex # <<>>
    THEN DecodeString(tx.Vin[input + 1].ScriptSig.Hex).bytes
    ELSE [k \in 1..10 |-> 0]

\* mutant: a failed decode is handed on instead of becoming zero
GetValueSatForUnknownInput_Propagate(tx, input) ==
    IF Len(tx.Vin) > input /\ tx.Vin[input + 1].ScriptSig.Hex # <<>>
    THEN LET script == DecodeString(tx.Vin[input + 1].ScriptSig.Hex).bytes
         IN  IF isZeroCoinSpendScript(script)
             THEN GetValueSatFromZerocoinSpend(script).value
             ELSE Some(BigNewInt(0))
    ELSE Some(BigNewInt(0))

GetValueSatForUnknownInput(tx, input) ==
    IF Len(tx.Vin) > input /\ tx.Vin[input + 1].ScriptSig.Hex # <<>>
    THEN LET script == DecodeString(tx.Vin[input + 1].ScriptSig.Hex).bytes
         IN  IF isZeroCoinSpendScript(script)
             THEN LET r == GetValueSatFromZerocoinSpend(script)
                  IN  IF r.err THEN Some(BigNewInt(0)) ELSE r.value
             ELSE Some(BigNewInt(0))
    ELSE Some(BigNewInt(0))

\* ------------------------------------------------------------ input sets

\* the opaque proof payload of a spend script: aa bb cc dd ee ff aa ...
ProofByte(k) == 170 + 17 * ((k - 3) % 6)

\* a script of n bytes: opcode, proof length len, len payload bytes, the four
\* denomination bytes d, then zero padding (each only where n leaves room)
MkScript(n, op, len, d) ==
    [k \in 1..n |->
        IF k = 1 THEN op
        ELSE IF k = 2 THEN len
        ELSE IF k <= 2 + len THEN ProofByte(k)
        ELSE IF k <= 2 + len + 4 THEN d[k - 2 - len]
        ELSE 0]

ScriptLens == (0..MaxShortLen) \cup ((SpendMinLen - 1)..(SpendMinLen + MaxLongExtra))
ScriptOps == {OP_ZEROCOINSPEND, OP_ZEROCOINMINT, CBASE_ADDR_INT, CSTAKE_ADDR_INT, 118, 0}
ProofLens == {0, 2, SpendMinLen - 6, SpendMinLen - 5, 255}
DenomBytes == {<<5, 0, 0, 0>>, <<0, 1, 0, 0>>, <<232, 3, 0, 0>>, <<1, 2, 3, 4>>,
               <<255, 255, 255, 255>>}

P2PKHScript == <<118, 169, 20>> \o [k \in 1..20 |-> k] \o <<136, 172>>

Scripts ==
    {MkScript(n, op, len, d) : n \in ScriptLens, op \in ScriptOps,
                               len \in ProofLens, d \in DenomBytes}
    \cup {P2PKHScript}

HashA == [k \in 1..32 |-> IF k = 1 THEN 171 ELSE 0]
NullOutPoint == [Hash |-> ZeroHash, Index |-> MaxUint32]
PrevOuts2 == <<NullOutPoint, [Hash |-> HashA, Index |-> <<0, 1>>]>>
PrevOuts == {PrevOuts2[1], PrevOuts2[2],
             [Hash |-> ZeroHash, Index |-> <<0, 0>>], [Hash |-> HashA, Index |-> MaxUint32]}

\* a wire transaction with the one input (prev, script) and one output
WireTx1(prev, script) ==
    [Version |-> 1, LockTime |-> 0,
     TxIn |-> <<[PreviousOutPoint |-> prev, SignatureScript |-> script,
                 Sequence |-> MaxUint32]>>,
     TxOut |-> <<[Value |-> 0, PkScript |-> <<>>]>>]

\* ------------------------------------------------ state of the other parts

ParamsIdle ==
    /\ registeredNets = {}
    /\ gcp = <<>>
    /\ attempts = [main |-> 0, test |-> 0]

ChainInfoIdle == ci = Nil

Idle == call = [op |-> "none"] /\ ret = Nil

\* -------------------------------------------- SpecScript: script functions

InitScript == Idle /\ ParamsIdle /\ ChainInfoIdle

CallOutputScriptToAddresses ==
    /\ call.op = "none"
    /\ \E s \in Scripts :
        /\ call' = [op |-> "outputScriptToAddresses", script |-> s]
        /\ ret' = outputScriptToAddresses(s)
    /\ UNCHANGED <<registeredNets, gcp, attempts, ci>>

CallGetValueSatFromZerocoinSpend ==
    /\ call.op = "none"
    /\ \E s \in Scripts :
        /\ call' = [op |-> "GetValueSatFromZerocoinSpend", script |-> s]
        /\ ret' = GetValueSatFromZerocoinSpend(s)
    /\ UNCHANGED <<registeredNets, gcp, attempts, ci>>

CallGetValueSatForUnknownInput ==
    /\ call.op = "none"
    /\ \E s \in Scripts, prev \in {PrevOuts2[1], PrevOuts2[2]}, input \in 0..2 :
        /\ call' = [op |-> "GetValueSatForUnknownInput", wire |-> WireTx1(prev, s),
                    tx |-> TxFromMsgTx(WireTx1(prev, s), FALSE), input |-> input]
        /\ ret' = GetValueSatForUnknownInput(TxFromMsgTx(WireTx1(prev, s), FALSE), input)
    /\ UNCHANGED <<registeredNets, gcp, attempts, ci>>

CallGetAddrDescForUnknownInput ==
    /\ call.op = "none"
    /\ \E s \in Scripts, input \in 0..1 :
        /\ call' = [op |-> "GetAddrDescForUnknownInput", wire |-> WireTx1(PrevOuts2[2], s),
                    tx |-> TxFromMsgTx(WireTx1(PrevOuts2[2], s), FALSE), input |-> input]
        /\ ret' = GetAddrDescForUnknownInput(TxFromMsgTx(WireTx1(PrevOuts2[2], s), FALSE), input)
    /\ UNCHANGED <<registeredNets, gcp, attempts, ci>>

NextScript ==
    \/ CallOutputScriptToAddresses
    \/ CallGetValueSatFromZerocoinSpend
    \/ CallGetValueSatForUnknownInput
    \/ CallGetAddrDescForUnknownInput

SpecScript == InitScript /\ [][NextScript]_vars

\* ------------------------------------------------------- claims C3, C4, C5

\* C3: outputScriptToAddresses answers by the first matching rule, in the
\* order spend (length >= 100, first byte 0xc2), mint (length > 1, first byte
\* 0xc1), the single byte 0xf7, the single byte 0xf8, each with its one label
\* and resolved = false; only when none matches is the baseline decoder
\* consulted and its labels and flag returned unchanged; no error is returned.
C3_ClassifierOrder ==
    call.op = "outputScriptToAddresses" =>
        LET s == call.script
            fixed(label) == /\ ret.addrs = <<label>>
                            /\ ret.searchable = FALSE
                            /\ ret.baseline = FALSE
        IN  /\ ret.err = FALSE
            /\ IF Len(s) >= 100 /\ s[1] = 194 THEN fixed("Zerocoin Spend")
               ELSE IF Len(s) > 1 /\ s[1] = 193 THEN fixed("Zerocoin Mint")
               ELSE IF s = <<247>> THEN fixed("CoinBase TX")
               ELSE IF s = <<248>> THEN fixed("CoinStake TX")
               ELSE /\ ret.baseline = TRUE
                    /\ ret.addrs = BitcoinOutputScriptToAddressesFunc(s).addrs
                    /\ ret.searchable = BitcoinOutputScriptToAddressesFunc(s).searchable

C3_Witness ==
    /\ call.op = "outputScriptToAddresses"
    /\ Len(call.script) = 100
    /\ call.script[1] = 194
    /\ ret.addrs = <<"Zerocoin Spend">>

\* the denomination bytes b0..b3 (little-endian) times 1e8, by Horner's rule
\* in base 256
DenomE8(b0, b1, b2, b3) ==
    BigMulE8(BigMulAdd(BigMulAdd(BigMulAdd(BigNewInt(b3), 256, b2), 256, b1), 256, b0))

\* C4: with L = b[1], GetValueSatFromZerocoinSpend returns the little-endian
\* 32-bit integer at b[2+L..2+L+3] times 10^8 and no error when
\* len(b) >= 2 + L + 4, and an error with no value for any shorter buffer;
\* [c2 02 aa bb 05 00 00 00] yields 5 * 10^8.
C4_SpendValue ==
    call.op = "GetValueSatFromZerocoinSpend" =>
        LET b == call.script
        IN  /\ IF Len(b) >= 2 /\ Len(b) >= 2 + b[2] + 4
               THEN ret = [value |-> Some(DenomE8(b[3 + b[2]], b[4 + b[2]],
                                                   b[5 + b[2]], b[6 + b[2]])),
                           err |-> FALSE]
               ELSE ret = [value |-> Nil, err |-> TRUE]
            /\ b = <<194, 2, 170, 187, 5, 0, 0, 0>> => ret.value = Some(<<0, 0, 5>>)

C4_Witness ==
    /\ call.op = "GetValueSatFromZerocoinSpend"
    /\ call.script = <<194, 2, 170, 187, 5, 0, 0, 0>>
    /\ ret = [value |-> Some(<<0, 0, 5>>), err |-> FALSE]

\* C5: GetValueSatForUnknownInput(tx, i), i >= 0, always returns a value: the
\* one decoded by GetValueSatFromZerocoinSpend when input i exists, has a non-empty
\* unlocking script that is a coin-spend script, and the decode succeeds;
\* zero in every other case, a failed decode included.
C5_UnknownInputValue ==
    call.op = "GetValueSatForUnknownInput" =>
        LET n == Len(call.wire.TxIn)
            script == IF call.input < n THEN call.wire.TxIn[call.input + 1].SignatureScript
                      ELSE <<>>
            hasScript == call.input < n /\ call.tx.Vin[call.input + 1].ScriptSig.Hex # <<>>
            decoded == GetValueSatFromZerocoinSpend(script)
        IN  /\ ret # Nil
            /\ IF hasScript /\ Len(script) >= 100 /\ script[1] = 194 /\ ~decoded.err
               THEN ret = decoded.value
               ELSE ret = Some(<<>>)

\* a 100-byte spend script whose declared proof length runs past the buffer
C5_Witness ==
    /\ call.op = "GetValueSatForUnknownInput"
    /\ call.input = 0
    /\ Len(call.wire.TxIn[1].SignatureScript) = 100
    /\ call.wire.TxIn[1].SignatureScript[1] = 194
    /\ call.tx.Vin[1].ScriptSig.Hex # <<>>
    /\ GetValueSatFromZerocoinSpend(call.wire.TxIn[1].SignatureScript).err
    /\ ret = Some(<<>>)

\* ------------------------------------------- SpecTx: transaction decoding

SeqsUpTo(S, n) == UNION {[1..k -> S] : k \in 0..n}

CoinbaseScript == <<4, 1, 2, 3, 4>>
SpendScript == MkScript(SpendMinLen, OP_ZEROCOINSPEND, 2, <<5, 0, 0, 0>>)
ShortSpendScript == MkScript(SpendMinLen - 1, OP_ZEROCOINSPEND, 2, <<5, 0, 0, 0>>)
MintScript == <<OP_ZEROCOINMINT, 1, 2>>

TxScripts == {<<>>, CoinbaseScript, SpendScript, ShortSpendScript}

FirstInputs ==
    {[PreviousOutPoint |-> p, SignatureScript |-> s, Sequence |-> q] :
        p \in PrevOuts, s \in TxScripts, q \in {MaxUint32, <<0, 0>>}}

ExtraInputs ==
    {[PreviousOutPoint |-> PrevOuts2[2], SignatureScript |-> s, Sequence |-> MaxUint32] :
        s \in {CoinbaseScript, SpendScript}}

TxIns ==
    {<<>>} \cup {<<f>> \o e : f \in FirstInputs, e \in SeqsUpTo(ExtraInputs, MaxExtraIns)}

Outputs ==
    {[Value |-> 0, PkScript |-> <<>>],
     [Value |-> 150000000, PkScript |-> P2PKHScript],
     [Value |-> 5, PkScript |-> MintScript]}

WireTxs ==
    {[Version |-> 1, LockTime |-> 0, TxIn |-> i, TxOut |-> o] :
        i \in TxIns, o \in SeqsUpTo(Outputs, MaxOuts)}

JsonValues == {<<"1", ".", "5">>, <<"0", ".", "0", "0", "0", "0", "0", "0", "0", "5">>,
               <<"1", "e", "3">>}

\* the unmarshalled JSON of wire transaction t as the backend reports it:
\* inputs as the binary path classifies them, outputs with their script hex,
\* every value given as the decimal string jv
JsonOf(t, jv) ==
    [malformed |-> FALSE,
     Txid |-> <<"hex-reversed", TxHash(t)>>,
     Version |-> t.Version,
     LockTime |-> t.LockTime,
     Vin |-> TxFromMsgTxVin(t),
     Vout |-> [i \in 1..Len(t.TxOut) |->
                [ValueSat |-> <<>>,
                 N |-> <<0, i - 1>>,
                 JsonValue |-> jv,
                 ScriptPubKey |->
                    [Hex |-> EncodeToString(t.TxOut[i].PkScript),
                     Addresses |-> IF IsP2PKH(t.TxOut[i].PkScript)
                                   THEN Some(BitcoinOutputScriptToAddressesFunc(
                                                t.TxOut[i].PkScript).addrs)
                                   ELSE Nil]]]]

InitTx == Idle /\ ParamsIdle /\ ChainInfoIdle

CallTxFromMsgTx ==
    /\ call.op = "none"
    /\ \E t \in WireTxs, parseAddresses \in BOOLEAN :
        /\ call' = [op |-> "TxFromMsgTx", t |-> t, parseAddresses |-> parseAddresses]
        /\ ret' = TxFromMsgTx(t, parseAddresses)
    /\ UNCHANGED <<registeredNets, gcp, attempts, ci>>

CallParseTxFromJson ==
    /\ call.op = "none"
    /\ \E t \in WireTxs, jv \in JsonValues :
        /\ call' = [op |-> "ParseTxFromJson", t |-> t, msg |-> JsonOf(t, jv)]
        /\ ret' = ParseTxFromJson(JsonOf(t, jv))
    /\ UNCHANGED <<registeredNets, gcp, attempts, ci>>

CallParseTxFromJsonMalformed ==
    /\ call.op = "none"
    /\ call' = [op |-> "ParseTxFromJson", t |-> Nil, msg |-> [malformed |-> TRUE]]
    /\ ret' = ParseTxFromJson([malformed |-> TRUE])
    /\ UNCHANGED <<registeredNets, gcp, attempts, ci>>

NextTx ==
    \/ CallTxFromMsgTx
    \/ CallParseTxFromJson
    \/ CallParseTxFromJsonMalformed

SpecTx == InitTx /\ [][NextTx]_vars

\* ------------------------------------------------------ claims C1, C2, C10

\* the baseline coinbase predicate, spelled out
BaselineCoinbase(t) ==
    /\ Len(t.TxIn) = 1
    /\ t.TxIn[1].PreviousOutPoint.Index = <<65535, 65535>>
    /\ \A k \in 1..32 : t.TxIn[1].PreviousOutPoint.Hash[k] = 0

\* the spend rule, spelled out
SpendRule(s) == Len(s) >= 100 /\ s[1] = 194

\* input i of t came out as a coinbase marker: coinbase hex and sequence,
\* no previous-output reference
IsMarker(t, vin, i) ==
    /\ vin[i].Coinbase = EncodeToString(t.TxIn[i].SignatureScript)
    /\ vin[i].Sequence = t.TxIn[i].Sequence
    /\ vin[i].Txid = <<>>
    /\ vin[i].Vout = <<0, 0>>
    /\ vin[i].ScriptSig.Hex = <<>>

\* input i of t came out with its previous-output reference
IsReference(t, vin, i) ==
    /\ vin[i].Txid = HashString(t.TxIn[i].PreviousOutPoint.Hash)
    /\ Len(vin[i].Txid) = 64
    /\ vin[i].Vout = t.TxIn[i].PreviousOutPoint.Index
    /\ vin[i].Sequence = t.TxIn[i].Sequence
    /\ vin[i].ScriptSig.Hex = EncodeToString(t.TxIn[i].SignatureScript)
    /\ vin[i].Coinbase = <<>>

\* C1: TxFromMsgTx emits an input as a coinbase marker only if the baseline
\* coinbase predicate holds of the transaction and that input's script is
\* not a coin-spend script; every other input, the sole coin-spend input of
\* a one-input transaction included, keeps its previous-output reference
\* (Txid, Vout, Sequence, ScriptSig hex).
C1_CoinbaseOnlyIfNotSpend ==
    call.op = "TxFromMsgTx" =>
        /\ Len(ret.Vin) = Len(call.t.TxIn)
        /\ \A i \in 1..Len(call.t.TxIn) :
            IF BaselineCoinbase(call.t) /\ ~SpendRule(call.t.TxIn[i].SignatureScript)
            THEN IsMarker(call.t, ret.Vin, i)
            ELSE IsReference(call.t, ret.Vin, i) /\ ~IsMarker(call.t, ret.Vin, i)

\* a one-input transaction with a null previous output and a coin-spend
\* script, decoded with its reference kept
C1_Witness ==
    /\ call.op = "TxFromMsgTx"
    /\ BaselineCoinbase(call.t)
    /\ SpendRule(call.t.TxIn[1].SignatureScript)
    /\ IsReference(call.t, ret.Vin, 1)

\* C2: for every output with an empty locking script TxFromMsgTx sets the
\* script hex to "f7" iff the transaction is coinbase (baseline predicate)
\* and its sole input's script is not a coin-spend script, and to "f8"
\* otherwise, the same for every such output and for either value of
\* parseAddresses; a non-empty script keeps its hex.
C2_EmptyScriptSentinel ==
    call.op = "TxFromMsgTx" =>
        /\ Len(ret.Vout) = Len(call.t.TxOut)
        /\ \A i \in 1..Len(call.t.TxOut) :
            ret.Vout[i].ScriptPubKey.Hex =
                IF call.t.TxOut[i].PkScript = <<>>
                THEN IF BaselineCoinbase(call.t) /\ ~SpendRule(call.t.TxIn[1].SignatureScript)
                     THEN <<"f", "7">>
                     ELSE <<"f", "8">>
                ELSE EncodeToString(call.t.TxOut[i].PkScript)

\* a coinbase transaction decoded without address resolution whose two
\* empty-script outputs both get "f7"
C2_Witness ==
    /\ call.op = "TxFromMsgTx"
    /\ call.parseAddresses = FALSE
    /\ BaselineCoinbase(call.t)
    /\ ~SpendRule(call.t.TxIn[1].SignatureScript)
    /\ Len(call.t.TxOut) = 2
    /\ \A i \in 1..2 : call.t.TxOut[i].PkScript = <<>> /\ ret.Vout[i].ScriptPubKey.Hex = <<"f", "7">>

\* C10: on the JSON path every output whose script hex is empty gets "f7"
\* when the transaction is a coinbase transaction (its sole input is a
\* coinbase marker) and "f8" otherwise, and this is the sentinel the binary
\* path chooses for the same transaction.
C10_JsonAgreesWithBinary ==
    (call.op = "ParseTxFromJson" /\ ~ret.err) =>
        \A i \in 1..Len(call.msg.Vout) :
            call.msg.Vout[i].ScriptPubKey.Hex = <<>> =>
                /\ ret.tx[1].Vout[i].ScriptPubKey.Hex =
                        IF Len(call.t.TxIn) = 1 /\ IsMarker(call.t, call.msg.Vin, 1)
                        THEN <<"f", "7">>
                        ELSE <<"f", "8">>
                /\ ret.tx[1].Vout[i].ScriptPubKey.Hex =
                        TxFromMsgTx(call.t, FALSE).Vout[i].ScriptPubKey.Hex

\* ------------------------------------------------ SpecBlock: block decoding

\* wire.BlockHeader: version(4) prev(32) merkle(32) timestamp(4) bits(4) nonce(4)
BlockHeaderLen == 80
\* the accumulator checkpoint of version 4..6 blocks
AccumulatorLen == 32

\* int32 from four little-endian bytes at s[k..k+3]
Int32LE(s, k) ==
    s[k] + 256 * s[k + 1] + 65536 * s[k + 2]
        + 16777216 * (IF s[k + 3] >= 128 THEN s[k + 3] - 256 ELSE s[k + 3])

\* uint32 from four little-endian bytes at s[k..k+3], for values below 2^31
\* (the header timestamps of the inputs)
Uint32LE(s, k) == s[k] + 256 * s[k + 1] + 65536 * s[k + 2] + 16777216 * s[k + 3]

\* BlockHeader.Deserialize: fails when fewer than 80 bytes remain
HeaderDeserialize(r) ==
    IF r.i + BlockHeaderLen > Len(r.s)
    THEN [err |-> TRUE, Version |-> 0, Timestamp |-> 0, r |-> r]
    ELSE [err |-> FALSE,
          Version |-> Int32LE(r.s, r.i + 1),
          Timestamp |-> Uint32LE(r.s, r.i + 69),
          r |-> [r EXCEPT !.i = r.i + BlockHeaderLen]]

\* The wire transactions a block can carry. The baseline transaction codec is
\* kept as a one-byte code per transaction: code k stands for the
\* serialization of BlockTxTable[k].
BlockTxTable ==
    <<[Version |-> 1, LockTime |-> 0,
       TxIn |-> <<[PreviousOutPoint |-> NullOutPoint, SignatureScript |-> CoinbaseScript,
                   Sequence |-> MaxUint32]>>,
       TxOut |-> <<[Value |-> 0, PkScript |-> <<>>]>>],
      [Version |-> 1, LockTime |-> 0,
       TxIn |-> <<[PreviousOutPoint |-> NullOutPoint, SignatureScript |-> SpendScript,
                   Sequence |-> MaxUint32]>>,
       TxOut |-> <<[Value |-> 5, PkScript |-> MintScript], [Value |-> 0, PkScript |-> <<>>]>>],
      [Version |-> 1, LockTime |-> 0,
       TxIn |-> <<[PreviousOutPoint |-> PrevOuts2[2], SignatureScript |-> CoinbaseScript,
                   Sequence |-> <<0, 0>>]>>,
       TxOut |-> <<[Value |-> 150000000, PkScript |-> P2PKHScript]>>]>>

\* utils.DecodeTransactions: a count byte, then that many transactions; fails
\* at the end of the buffer or on an undecodable transaction; bytes after the
\* last transaction are left unread
DecodeTransactions(r) ==
    IF r.i + 1 > Len(r.s) THEN [err |-> TRUE, txs |-> <<>>]
    ELSE LET n == r.s[r.i + 1]
         IN  IF r.i + 1 + n > Len(r.s) THEN [err |-> TRUE, txs |-> <<>>]
             ELSE IF \E k \in 1..n : r.s[r.i + 1 + k] \notin 1..Len(BlockTxTable)
             THEN [err |-> TRUE, txs |-> <<>>]
             ELSE [err |-> FALSE, txs |-> [k \in 1..n |-> BlockTxTable[r.s[r.i + 1 + k]]]]

\* mutant: the version window is closed at 7
ParseBlock_SkipVersion7(b) ==
    LET h == HeaderDeserialize(NewReader(b))
        r == IF h.Version > 3 /\ h.Version <= 7 THEN Seek(h.r, AccumulatorLen) ELSE h.r
        w == DecodeTransactions(r)
    IN  IF h.err THEN [block |-> Nil, err |-> TRUE, read |-> Nil]
        ELSE IF w.err THEN [block |-> Nil, err |-> TRUE, read |-> Some(r.i)]
        ELSE [block |-> Some([Size |-> Len(b),
                              Time |-> h.Timestamp,
                              Txs |-> [ti \in 1..Len(w.txs) |-> TxFromMsgTx(w.txs[ti], FALSE)]]),
              err |-> FALSE,
              read |-> Some(r.i)]

\* ParseBlock; read records the reader position at which the transaction list
\* was read
ParseBlock(b) ==
    LET h == HeaderDeserialize(NewReader(b))
        r == IF h.Version > 3 /\ h.Version < 7 THEN Seek(h.r, AccumulatorLen) ELSE h.r
        w == DecodeTransactions(r)
    IN  IF h.err THEN [block |-> Nil, err |-> TRUE, read |-> Nil]
        ELSE IF w.err THEN [block |-> Nil, err |-> TRUE, read |-> Some(r.i)]
        ELSE [block |-> Some([Size |-> Len(b),
                              Time |-> h.Timestamp,
                              Txs |-> [ti \in 1..Len(w.txs) |-> TxFromMsgTx(w.txs[ti], FALSE)]]),
              err |-> FALSE,
              read |-> Some(r.i)]

\* header versions as their four little-endian bytes: 3..7, 260, -1 and the
\* most negative value with low byte 5
VersionBytes == {<<v, 0, 0, 0>> : v \in 3..7}
                    \cup {<<4, 1, 0, 0>>, <<255, 255, 255, 255>>, <<5, 0, 0, 128>>}
TimeBytes == {<<0, 0, 0, 0>>, <<1, 2, 3, 4>>}

\* the serialized header with version bytes vb and timestamp bytes tb
HeaderBytes(vb, tb) ==
    [k \in 1..BlockHeaderLen |->
        IF k <= 4 THEN vb[k]
        ELSE IF k >= 69 /\ k <= 72 THEN tb[k - 68]
        ELSE 0]

\* the serialized transaction list for transaction codes cs
TxListBytes(cs) == <<Len(cs)>> \o cs

\* what may stand between header and transaction list: nothing, or the 32
\* bytes of an accumulator checkpoint
Gaps == {<<>>, [k \in 1..AccumulatorLen |-> 2]}

InitBlock == Idle /\ ParamsIdle /\ ChainInfoIdle

CallParseBlock ==
    /\ call.op = "none"
    /\ \E vb \in VersionBytes, tb \in TimeBytes, gap \in Gaps,
          cs \in SeqsUpTo(1..Len(BlockTxTable), MaxBlockTxs) :
        /\ call' = [op |-> "ParseBlock", b |-> HeaderBytes(vb, tb) \o gap \o TxListBytes(cs),
                    vb |-> vb, tb |-> tb, gap |-> Len(gap), cs |-> cs]
        /\ ret' = ParseBlock(HeaderBytes(vb, tb) \o gap \o TxListBytes(cs))
    /\ UNCHANGED <<registeredNets, gcp, attempts, ci>>

\* a buffer cut inside the header
CallParseBlockTruncated ==
    /\ call.op = "none"
    /\ \E vb \in VersionBytes, n \in {0, 4, BlockHeaderLen - 1} :
        /\ call' = [op |-> "ParseBlock", b |-> SubSeq(HeaderBytes(vb, <<0, 0, 0, 0>>), 1, n),
                    vb |-> vb, tb |-> <<0, 0, 0, 0>>, gap |-> 0, cs |-> <<>>]
        /\ ret' = ParseBlock(SubSeq(HeaderBytes(vb, <<0, 0, 0, 0>>), 1, n))
    /\ UNCHANGED <<registeredNets, gcp, attempts, ci>>

NextBlock == CallParseBlock \/ CallParseBlockTruncated

SpecBlock == InitBlock /\ [][NextBlock]_vars

\* ---------------------------------------------------------------- claim C6

\* the header version is 4, 5 or 6
InWindow(vb) == vb \in {<<4, 0, 0, 0>>, <<5, 0, 0, 0>>, <<6, 0, 0, 0>>}

\* C6: ParseBlock starts reading the transaction list 32 bytes after the
\* 80-byte header when the header version is 4, 5 or 6 and right after the
\* header for every other version; on success the block's Size is the buffer
\* length, its Time the header timestamp, and its Txs the wire transactions
\* found there, one each, in wire order.
C6_ParseBlock ==
    (call.op = "ParseBlock" /\ Len(call.b) >= 80) =>
        LET start == IF InWindow(call.vb) THEN 112 ELSE 80
            laidOut == call.gap = start - 80
        IN  /\ ret.read = Some(start)
            /\ laidOut => ~ret.err
            /\ ~ret.err =>
                /\ ret.block[1].Size = Len(call.b)
                /\ ret.block[1].Time = call.tb[1] + 256 * call.tb[2] + 65536 * call.tb[3]
                                            + 16777216 * call.tb[4]
                /\ Len(ret.block[1].Txs) = call.b[start + 1]
                /\ \A k \in 1..Len(ret.block[1].Txs) :
                        ret.block[1].Txs[k] = TxFromMsgTx(BlockTxTable[call.b[start + 1 + k]], FALSE)
                /\ laidOut =>
                    /\ Len(ret.block[1].Txs) = Len(call.cs)
                    /\ \A k \in 1..Len(call.cs) :
                        ret.block[1].Txs[k] = TxFromMsgTx(BlockTxTable[call.cs[k]], FALSE)

\* a version-6 block with its accumulator checkpoint and two transactions
C6_Witness ==
    /\ call.op = "ParseBlock"
    /\ call.vb = <<6, 0, 0, 0>>
    /\ call.gap = 32
    /\ Len(call.cs) = 2
    /\ ~ret.err
    /\ ret.read = Some(112)
    /\ Len(ret.block[1].Txs) = 2

\* ------------------------------------------ SpecSuperBlock: next superblock

\* Go's % on int: the sign follows the dividend
GoMod(a, b) == IF a >= 0 THEN a % b ELSE -((-a) % b)

\* mutant: rounds up to a multiple of the period, so an aligned height is
\* returned as it is
GetNextSuperBlock_RoundUp(nHeight) ==
    ((nHeight + nBlocksPerPeriod - 1) \div nBlocksPerPeriod) * nBlocksPerPeriod

GetNextSuperBlock(nHeight) ==
    nHeight - GoMod(nHeight, nBlocksPerPeriod) + nBlocksPerPeriod

InitSuperBlock == Idle /\ ParamsIdle /\ ChainInfoIdle

CallGetNextSuperBlock ==
    /\ call.op = "none"
    /\ \E nHeight \in 0..MaxHeight :
        /\ call' = [op |-> "GetNextSuperBlock", nHeight |-> nHeight]
        /\ ret' = GetNextSuperBlock(nHeight)
    /\ UNCHANGED <<registeredNets, gcp, attempts, ci>>

NextSuperBlock == CallGetNextSuperBlock

SpecSuperBlock == InitSuperBlock /\ [][NextSuperBlock]_vars

\* C7: for every height h >= 0, GetNextSuperBlock(h) = h - (h mod 43200) +
\* 43200: a multiple of 43200, strictly greater than h even when h is aligned,
\* and at most 43200 above h; 0 -> 43200, 43199 -> 43200, 43200 -> 86400.
C7_NextSuperBlock ==
    (call.op = "GetNextSuperBlock" /\ call.nHeight >= 0) =>
        /\ ret = call.nHeight - (call.nHeight % 43200) + 43200
        /\ ret % 43200 = 0
        /\ ret > call.nHeight
        /\ ret - call.nHeight <= 43200
        /\ call.nHeight = 0 => ret = 43200
        /\ call.nHeight = 43199 => ret = 43200
        /\ call.nHeight = 43200 => ret = 86400

\* an aligned height
C7_Witness ==
    /\ call.op = "GetNextSuperBlock"
    /\ call.nHeight = 43200
    /\ ret = 86400

\* --------------------------------------------- SpecChainInfo: GetChainInfo

\* what the backend can answer to the baseline chain-info fetch
BaselineReplies ==
    {[err |-> Some([kind |-> "transport", msg |-> "getblockchaininfo"]), rv |-> Nil]}
    \cup {[err |-> Nil,
           rv |-> Some([Chain |-> c, Blocks |-> h, Headers |-> h, MoneySupply |-> "",
                        ZerocoinSupply |-> "", MasternodeCount |-> 0, NextSuperBlock |-> 0])] :
            c \in {"main", "test"}, h \in {0, 43199, 43200, 50000}}

RPCErrors == {[kind |-> "rpc", msg |-> "Loading block index..."]}

\* what b.Call can leave for getinfo: a transport error, a response carrying
\* an error object, or a result
GetInfoResults ==
    {[MoneySupply |-> m, ZerocoinSupply |-> z] : m \in {"1000.5", "0"}, z \in {"zc:15", "zc:0"}}

GetInfoReplies ==
    {[err |-> Some([kind |-> "transport", msg |-> "getinfo"]), Error |-> Nil,
      Result |-> [MoneySupply |-> "", ZerocoinSupply |-> ""]]}
    \cup {[err |-> Nil, Error |-> Some(e), Result |-> r] : e \in RPCErrors, r \in GetInfoResults}
    \cup {[err |-> Nil, Error |-> Nil, Result |-> r] : r \in GetInfoResults}

MasternodeCountResults ==
    {[Total |-> 10, Stable |-> 9, Enabled |-> 8, InQueue |-> 7],
     [Total |-> 3, Stable |-> 0, Enabled |-> 0, InQueue |-> 0]}

GetMasternodeCountReplies ==
    {[err |-> Some([kind |-> "transport", msg |-> "getmasternodecount"]), Error |-> Nil,
      Result |-> [Total |-> 0, Stable |-> 0, Enabled |-> 0, InQueue |-> 0]]}
    \cup {[err |-> Nil, Error |-> Some(e), Result |-> r] :
            e \in RPCErrors, r \in MasternodeCountResults}
    \cup {[err |-> Nil, Error |-> Nil, Result |-> r] : r \in MasternodeCountResults}

\* the call returns (info, err)
Return(c, info, err) == [c EXCEPT !.pc = "done", !.ret = [info |-> info, err |-> err]]

\* GetChainInfo from the baseline fetch to the getinfo call
AfterBaseline(c, reply) ==
    LET c1 == [c EXCEPT !.log = Append(c.log, [method |-> "getblockchaininfo", reply |-> reply])]
    IN  IF reply.err # Nil THEN Return(c1, Nil, reply.err)
        ELSE [c1 EXCEPT !.pc = "getinfo", !.rv = reply.rv]

\* mutant: an error object inside a delivered getinfo response is not looked at
AfterGetInfo_IgnoreErrorObject(c, reply) ==
    LET c1 == [c EXCEPT !.log = Append(c.log, [method |-> "getinfo", reply |-> reply])]
    IN  IF reply.err # Nil THEN Return(c1, Nil, reply.err)
        ELSE [c1 EXCEPT !.pc = "getmasternodecount",
                        !.rv = Some([c.rv[1] EXCEPT
                                        !.MoneySupply = reply.Result.MoneySupply,
                                        !.ZerocoinSupply = reply.Result.ZerocoinSupply])]

\* GetChainInfo from the getinfo reply to the getmasternodecount call
AfterGetInfo(c, reply) ==
    LET c1 == [c EXCEPT !.log = Append(c.log, [method |-> "getinfo", reply |-> reply])]
    IN  IF reply.err # Nil THEN Return(c1, Nil, reply.err)
        ELSE IF reply.Error # Nil THEN Return(c1, Nil, reply.Error)
        ELSE [c1 EXCEPT !.pc = "getmasternodecount",
                        !.rv = Some([c.rv[1] EXCEPT
                                        !.MoneySupply = reply.Result.MoneySupply,
                                        !.ZerocoinSupply = reply.Result.ZerocoinSupply])]

\* GetChainInfo from the getmasternodecount reply to its return
AfterGetMasternodeCount(c, reply) ==
    LET c1 == [c EXCEPT !.log = Append(c.log, [method |-> "getmasternodecount", reply |-> reply])]
    IN  IF reply.err # Nil THEN Return(c1, Nil, reply.err)
        ELSE IF reply.Error # Nil THEN Return(c1, Nil, reply.Error)
        ELSE Return(c1,
                    Some([c.rv[1] EXCEPT
                            !.MasternodeCount = reply.Result.Enabled,
                            !.NextSuperBlock = GetNextSuperBlock(c.rv[1].Headers)]),
                    Nil)

InitChainInfo ==
    /\ Idle
    /\ ParamsIdle
    /\ ci = [pc |-> "baseline", rv |-> Nil, log |-> <<>>, ret |-> Nil]

BitcoinGetChainInfo ==
    /\ ci.pc = "baseline"
    /\ \E reply \in BaselineReplies : ci' = AfterBaseline(ci, reply)
    /\ UNCHANGED <<call, ret, registeredNets, gcp, attempts>>

CallGetInfo ==
    /\ ci.pc = "getinfo"
    /\ \E reply \in GetInfoReplies : ci' = AfterGetInfo(ci, reply)
    /\ UNCHANGED <<call, ret, registeredNets, gcp, attempts>>

CallGetMasternodeCount ==
    /\ ci.pc = "getmasternodecount"
    /\ \E reply \in GetMasternodeCountReplies : ci' = AfterGetMasternodeCount(ci, reply)
    /\ UNCHANGED <<call, ret, registeredNets, gcp, attempts>>

NextChainInfo ==
    \/ BitcoinGetChainInfo
    \/ CallGetInfo
    \/ CallGetMasternodeCount

SpecChainInfo == InitChainInfo /\ [][NextChainInfo]_vars

\* the reply succeeded: delivered, and without an error object
ReplyOk(e) ==
    /\ e.reply.err = Nil
    /\ e.method # "getblockchaininfo" => e.reply.Error = Nil

\* the error a failed reply stands for
ReplyError(e) == IF e.reply.err # Nil THEN e.reply.err ELSE e.reply.Error

ChainInfoOrder == <<"getblockchaininfo", "getinfo", "getmasternodecount">>

\* C8: GetChainInfo runs baseline chain info, then "getinfo", then
\* "getmasternodecount"; the first step that fails (the baseline fetch, a
\* transport error, or an error object inside a delivered response) ends the
\* call with that error, no ChainInfo and no later RPC; when all three
\* succeed the result carries getinfo's money supply and zerocoin supply,
\* getmasternodecount's enabled count and NextSuperBlock =
\* GetNextSuperBlock(Headers).
C8_ChainInfo ==
    /\ Len(ci.log) <= 3
    /\ \A k \in 1..Len(ci.log) :
        /\ ci.log[k].method = ChainInfoOrder[k]
        /\ k < Len(ci.log) => ReplyOk(ci.log[k])
    /\ ci.pc = "done" =>
        /\ ci.log # <<>>
        /\ IF Len(ci.log) = 3 /\ ReplyOk(ci.log[3])
           THEN /\ ci.ret.err = Nil
                /\ ci.ret.info # Nil
                /\ ci.ret.info[1].MoneySupply = ci.log[2].reply.Result.MoneySupply
                /\ ci.ret.info[1].ZerocoinSupply = ci.log[2].reply.Result.ZerocoinSupply
                /\ ci.ret.info[1].MasternodeCount = ci.log[3].reply.Result.Enabled
                /\ ci.ret.info[1].Headers = ci.log[1].reply.rv[1].Headers
                /\ ci.ret.info[1].NextSuperBlock =
                        GetNextSuperBlock(ci.log[1].reply.rv[1].Headers)
           ELSE /\ ~ReplyOk(ci.log[Len(ci.log)])
                /\ ci.ret.info = Nil
                /\ ci.ret.err = ReplyError(ci.log[Len(ci.log)])
    /\ ci.pc # "done" => Len(ci.log) < 3 /\ ci.ret = Nil

\* getinfo answered with an error object inside a delivered response: the
\* call ended there, empty-handed
C8_Witness ==
    /\ ci.pc = "done"
    /\ Len(ci.log) = 2
    /\ ci.log[2].reply.err = Nil
    /\ ci.log[2].reply.Error # Nil
    /\ ci.ret.info = Nil
    /\ ci.ret.err = ci.log[2].reply.Error

\* ------------------------------------------- SpecParams: GetChainParams

MainnetMagic == <<59901, 50320>>
TestnetMagic == <<47717, 30277>>

MainNetParams ==
    [Net |-> MainnetMagic, PubKeyHashAddrID |-> <<30>>, ScriptHashAddrID |-> <<19>>,
     PrivateKeyID |-> <<122>>]

TestNetParams ==
    [Net |-> TestnetMagic, PubKeyHashAddrID |-> <<139>>, ScriptHashAddrID |-> <<19>>,
     PrivateKeyID |-> <<239>>]

Callers == 1..MaxCallers
Chains == {"main", "test", "regtest"}

\* chaincfg.IsRegistered
IsRegistered(params) == params.Net \in registeredNets

\* a panic ends the program
Running == \A p \in Callers : gcp[p].pc # "panicked"

InitParams ==
    /\ Idle
    /\ ChainInfoIdle
    /\ registeredNets = {}
    /\ attempts = [main |-> 0, test |-> 0]
    /\ gcp = [p \in Callers |-> [pc |-> "idle", chain |-> "", ret |-> Nil]]

\* a caller enters GetChainParams(chain)
Enter(p) ==
    /\ Running
    /\ gcp[p].pc = "idle"
    /\ \E chain \in Chains : gcp' = [gcp EXCEPT ![p] = [pc |-> "check", chain |-> chain, ret |-> Nil]]
    /\ UNCHANGED <<call, ret, registeredNets, attempts, ci>>

\* if !chaincfg.IsRegistered(&MainNetParams)
CheckRegistered(p) ==
    /\ Running
    /\ gcp[p].pc = "check"
    /\ gcp' = [gcp EXCEPT ![p].pc = IF IsRegistered(MainNetParams) THEN "switch" ELSE "registerMain"]
    /\ UNCHANGED <<call, ret, registeredNets, attempts, ci>>

\* err := chaincfg.Register(&MainNetParams); a duplicate net is an error, and
\* the error panics
RegisterMain(p) ==
    /\ Running
    /\ gcp[p].pc = "registerMain"
    /\ attempts' = [attempts EXCEPT !.main = @ + 1]
    /\ IF IsRegistered(MainNetParams)
       THEN /\ gcp' = [gcp EXCEPT ![p].pc = "panicked"]
            /\ UNCHANGED registeredNets
       ELSE /\ registeredNets' = registeredNets \cup {MainNetParams.Net}
            /\ gcp' = [gcp EXCEPT ![p].pc = "registerTest"]
    /\ UNCHANGED <<call, ret, ci>>

\* err = chaincfg.Register(&TestNetParams)
RegisterTest(p) ==
    /\ Running
    /\ gcp[p].pc = "registerTest"
    /\ attempts' = [attempts EXCEPT !.test = @ + 1]
    /\ IF IsRegistered(TestNetParams)
       THEN /\ gcp' = [gcp EXCEPT ![p].pc = "panicked"]
            /\ UNCHANGED registeredNets
       ELSE /\ registeredNets' = registeredNets \cup {TestNetParams.Net}
            /\ gcp' = [gcp EXCEPT ![p].pc = "switch"]
    /\ UNCHANGED <<call, ret, ci>>

\* switch chain
Switch(p) ==
    /\ Running
    /\ gcp[p].pc = "switch"
    /\ gcp' = [gcp EXCEPT ![p].pc = "done",
                          ![p].ret = IF gcp[p].chain = "test" THEN Some(TestNetParams)
                                     ELSE Some(MainNetParams)]
    /\ UNCHANGED <<call, ret, registeredNets, attempts, ci>>

\* the caller takes the result and may call again
Leave(p) ==
    /\ Running
    /\ gcp[p].pc = "done"
    /\ gcp' = [gcp EXCEPT ![p] = [pc |-> "idle", chain |-> "", ret |-> Nil]]
    /\ UNCHANGED <<call, ret, registeredNets, attempts, ci>>

NextParams ==
    \E p \in Callers :
        \/ Enter(p)
        \/ CheckRegistered(p)
        \/ RegisterMain(p)
        \/ RegisterTest(p)
        \/ Switch(p)
        \/ Leave(p)

SpecParams == InitParams /\ [][NextParams]_vars

\* C9: over any interleaving of GetChainParams calls each parameter set is
\* registered at most once, no call tries to register a set that is already
\* registered, no call panics, and every call returns the test parameters
\* for "test" and the main parameters for any other name.
C9_RegistrationSafe ==
    /\ attempts.main <= 1
    /\ attempts.test <= 1
    /\ \A p \in Callers :
        /\ gcp[p].pc # "panicked"
        /\ gcp[p].pc = "done" =>
            gcp[p].ret = IF gcp[p].chain = "test" THEN Some(TestNetParams)
                         ELSE Some(MainNetParams)

====
